---- MODULE Spec2Model ----
(***************************************************************************)
(* The Mpesa client of pypesa/__init__.py as a state machine.              *)
(*                                                                         *)
(* State: the key-store file in the current directory, the client object   *)
(* (auth_keys, encrypted_api_key, origin_ip, urls), and a record of the    *)
(* last public operation: what it was given, which HTTP requests it        *)
(* issued, what it returned or raised.  The remote service and the RSA     *)
(* padding randomness are inputs drawn from small sets.                    *)
(***************************************************************************)
EXTENDS Integers, Sequences, FiniteSets, TLC

VARIABLES keyfile, phase, self, call, trace, nops, lastOrigin, pure, nposted

vars == <<keyfile, phase, self, call, trace, nops, lastOrigin, pure, nposted>>

(***************************************************************************)
(* Bounds of the model.                                                    *)
(***************************************************************************)
\* public operations (and key-store rewrites) explored after construction
MaxOps == 3
\* required fields a generated query may leave out
MaxMissing == 1
\* stand-in for the interpreter's recursion limit: how deep the chain
\* default_headers -> __generate_encrypted_key -> get_session_id may nest
\* before a RecursionError is raised
RecursionLimit == 3

(***************************************************************************)
(* Values.                                                                 *)
(***************************************************************************)
\* a key that a mapping does not have
Absent == "<absent>"
\* a value that is not a str (a JSON number)
NonStr == "<number>"

IsStr(v) == v # Absent /\ v # NonStr

\* the random paddings PKCS#1 v1.5 may pick for one plaintext
Paddings == {1, 2}

\* base64 text of an RSA ciphertext: which key, which plaintext, which padding
Cipher(pub, plain, n) == [pub |-> pub, plain |-> plain, nonce |-> n]
\* the str "" and the value None, in the shape of the strings above
EmptyStr == [pub |-> "", plain |-> "", nonce |-> 0]
None == [pub |-> "<None>", plain |-> "<None>", nonce |-> 0]
\* a str supplied by a caller of default_headers
CallerKey == [pub |-> "", plain |-> "caller-supplied", nonce |-> 0]

\* Python truth value of a str-or-None
Falsy(k) == k = EmptyStr \/ k = None


(***************************************************************************)
(* The key store: what the file named by auth_path holds.                  *)
(*   t = "missing"     no such name in os.listdir()                        *)
(*   t = "unreadable"  open() raises (a directory, no permission)          *)
(*   t = "garbage"     json.load raises                                    *)
(*   t = "null"        JSON null                                           *)
(*   t = "list"        a non-empty JSON list                               *)
(*   t = "dict"        a JSON object; a field is Absent or its value, and  *)
(*                     other stands for any key besides the two            *)
(***************************************************************************)
Store(t, pk, ak, o) == [t |-> t, public_key |-> pk, api_key |-> ak, other |-> o]

NoStore(t) == Store(t, Absent, Absent, Absent)

\* public keys: two RSA keys in base64, and a str that is no such key
GoodPublicKeys == {"PK1", "PK2"}
BadPublicKey == "not-a-key"
ApiKeys == {"AK1", "AK2"}

KeyStores ==
    {NoStore("missing"), NoStore("unreadable"), NoStore("garbage"),
     NoStore("null"), NoStore("list"), NoStore("dict"),
     Store("dict", "PK1", Absent, Absent),
     Store("dict", Absent, "AK1", Absent),
     Store("dict", Absent, Absent, "x"),
     Store("dict", BadPublicKey, "AK1", Absent),
     Store("dict", "PK1", NonStr, Absent),
     Store("dict", "PK1", "AK1", Absent),
     Store("dict", "PK2", "AK2", "x")}

\* bool(value) of a parsed JSON value
Truthy(j) ==
    \/ j.t = "list"
    \/ j.t = "dict" /\ (j.public_key # Absent \/ j.api_key # Absent \/ j.other # Absent)

\* mutant: mapping.get(key, "") in place of mapping[key]
Subscript_m(j, k) ==
    LET v == IF k = "public_key" THEN j.public_key ELSE j.api_key
    IN  IF j.t = "dict" /\ v # Absent THEN [ok |-> TRUE, val |-> v]
        ELSE [ok |-> TRUE, val |-> ""]

\* mapping[key]: a KeyError (or TypeError on a non-mapping) when it is not there
Subscript(j, k) ==
    LET v == IF k = "public_key" THEN j.public_key ELSE j.api_key
    IN  IF j.t = "dict" /\ v # Absent THEN [ok |-> TRUE, val |-> v]
        ELSE [ok |-> FALSE, val |-> Absent]

\* mutant: a key store that cannot be read or parsed loads as None
load_keys_m(f) ==
    IF f.t = "missing" THEN [ok |-> FALSE, err |-> "FileNotFoundError", val |-> f]
    ELSE IF f.t \in {"unreadable", "garbage"}
         THEN [ok |-> TRUE, err |-> "", val |-> NoStore("null")]
         ELSE [ok |-> TRUE, err |-> "", val |-> f]

\* __load_keys: the parsed JSON, or the exception raised
load_keys(f) ==
    IF f.t = "missing" THEN [ok |-> FALSE, err |-> "FileNotFoundError", val |-> f]
    ELSE IF f.t \in {"unreadable", "garbage"}
         THEN [ok |-> FALSE, err |-> "LoadingKeyError", val |-> f]
         ELSE [ok |-> TRUE, err |-> "", val |-> f]


(***************************************************************************)
(* HTTP: requests as the client builds them, answers as the service (or    *)
(* the network) gives them.                                                *)
(*   t = "json"      a JSON object; a field is Absent or its value         *)
(*   t = "jsonlist"  JSON that is not an object                            *)
(*   t = "notjson"   a body response.json() cannot parse                   *)
(*   t = "exc"       requests raised exc instead of answering              *)
(*   t = "none"      no request was answered                               *)
(***************************************************************************)
Resp(t, exc, sid, code, desc) ==
    [t |-> t, exc |-> exc, output_SessionID |-> sid,
     output_ResponseCode |-> code, output_ResponseDesc |-> desc]

NoResp == Resp("none", "", Absent, Absent, Absent)

Raised(exc) == Resp("exc", exc, Absent, Absent, Absent)

SessionIds == {"S1", "S2"}

\* what the session endpoint may answer to the GET
GetOutcomes ==
    {Resp("json", "", sid, "INS-0", "Request processed successfully") : sid \in SessionIds}
    \cup {Resp("json", "", "S1", "INS-989", "Session creation failed"),
          Resp("json", "", Absent, "INS-989", "Session creation failed"),
          Resp("json", "", Absent, "INS-0", "Request processed successfully"),
          Resp("json", "", "S1", Absent, "Request processed successfully"),
          Resp("json", "", "S1", "INS-0", Absent),
          Resp("json", "", NonStr, "INS-0", "Request processed successfully"),
          Resp("jsonlist", "", Absent, Absent, Absent),
          Resp("notjson", "", Absent, Absent, Absent),
          Raised("requests.ConnectionError")}

\* what a transaction endpoint may answer to the POST
PostOutcomes ==
    {Resp("json", "", Absent, "INS-0", "Request processed successfully"),
     Resp("json", "", Absent, "INS-2006", "Insufficient balance"),
     Resp("notjson", "", Absent, Absent, Absent),
     Raised("requests.ConnectTimeout"), Raised("requests.ConnectionError"),
     Raised("requests.ChunkedEncodingError")}

\* response.json() of an answer whose body is a JSON object
Json(r) ==
    [output_SessionID |-> r.output_SessionID,
     output_ResponseCode |-> r.output_ResponseCode,
     output_ResponseDesc |-> r.output_ResponseDesc]

NoJson == Json(NoResp)

\* the classes of the requests library an exception is an instance of
RequestsClasses(exc) ==
    IF exc = "requests.ConnectTimeout"
    THEN {"requests.ConnectTimeout", "requests.ConnectionError", "requests.Timeout",
          "requests.RequestException"}
    ELSE IF exc = "requests.ConnectionError"
    THEN {"requests.ConnectionError", "requests.RequestException"}
    ELSE IF exc = "requests.ChunkedEncodingError"
    THEN {"requests.ChunkedEncodingError", "requests.RequestException"}
    ELSE {}

\* a field no operation requires
ExtraFields == {"input_Note"}

FieldValue == "v"

\* a transaction query: a mapping from field names to values
Query(keys) == [k \in keys |-> FieldValue]

NoQuery == Query({})

Url(set, name) == [set |-> set, name |-> name]

Request(method, url, headers, json) ==
    [method |-> method, url |-> url, headers |-> headers, json |-> json]

\* "Bearer {}".format(auth_key)
Bearer(auth_key) == [scheme |-> "Bearer", key |-> auth_key]

Headers(auth_key, origin) ==
    [Content_Type |-> "application/json", Authorization |-> Bearer(auth_key),
     Host |-> "openapi.m-pesa.com", Origin |-> origin]

NoHeaders == Headers(None, "")


(***************************************************************************)
(* The client object and its methods.  A method is an operator from the   *)
(* object and the inputs of the call to what the call leaves behind:      *)
(* ok/err (returned or raised), the value, the requests issued in order,  *)
(* and how deep session fetches nested.                                   *)
(***************************************************************************)
Client(auth_keys, encrypted_api_key, origin_ip, urls) ==
    [auth_keys |-> auth_keys, encrypted_api_key |-> encrypted_api_key,
     origin_ip |-> origin_ip, urls |-> urls]

NoClient == Client(NoStore("unset"), None, "", "none")

Res(ok, err, key, sid, hdr, reqs, depth) ==
    [ok |-> ok, err |-> err, key |-> key, sid |-> sid, hdr |-> hdr,
     reqs |-> reqs, depth |-> depth]

Fail(err, reqs, depth) == Res(FALSE, err, None, Absent, NoHeaders, reqs, depth)

\* the origin_address getter
origin_address(s) == s.origin_ip

\* mutant: the setter without its isinstance check
origin_address_set_m(s, ip_address) ==
    [ok |-> TRUE, err |-> "", self |-> [s EXCEPT !.origin_ip = ip_address]]

\* the origin_address setter: the new __origin_ip, or the TypeError
origin_address_set(s, ip_address) ==
    IF IsStr(ip_address)
    THEN [ok |-> TRUE, err |-> "", self |-> [s EXCEPT !.origin_ip = ip_address]]
    ELSE [ok |-> FALSE, err |-> "TypeError", self |-> s]

\* base64 of the PKCS#1 v1.5 encryption of raw_key under pub_key
encrypt(pub_key, raw_key, n) ==
    IF pub_key \notin GoodPublicKeys THEN [ok |-> FALSE, key |-> None]
    ELSE IF ~IsStr(raw_key) THEN [ok |-> FALSE, key |-> None]
    ELSE [ok |-> TRUE, key |-> Cipher(pub_key, raw_key, n)]

\* mutant: get_session_id builds its headers without passing a key
session_auth_key_m(s) == EmptyStr

\* the key get_session_id authenticates its GET with
session_auth_key(s) == s.encrypted_api_key

\* mutant: the answer is read without the INS-989 test
session_response_m(g) ==
    IF g.t # "json" THEN [ok |-> FALSE, sid |-> Absent]
    ELSE IF \/ g.output_SessionID = Absent
            \/ g.output_ResponseCode = Absent
            \/ g.output_ResponseDesc = Absent
         THEN [ok |-> FALSE, sid |-> Absent]
    ELSE [ok |-> TRUE, sid |-> g.output_SessionID]

\* get_session_id's reading of the answer to its GET
session_response(g) ==
    IF g.t # "json" THEN [ok |-> FALSE, sid |-> Absent]
    ELSE IF \/ g.output_SessionID = Absent
            \/ g.output_ResponseCode = Absent
            \/ g.output_ResponseDesc = Absent
         THEN [ok |-> FALSE, sid |-> Absent]
    ELSE IF g.output_ResponseCode = "INS-989" THEN [ok |-> FALSE, sid |-> Absent]
    ELSE [ok |-> TRUE, sid |-> g.output_SessionID]

RECURSIVE default_headers(_, _, _, _, _)
RECURSIVE generate_encrypted_key(_, _, _, _, _)
RECURSIVE get_session_id(_, _, _, _)

\* get_session_id once its GET is answered: a is its reading of the answer
session_result(h, reqs, a) ==
    IF ~a.ok THEN Fail("AuthenticationError", reqs, h.depth)
    ELSE Res(TRUE, "", None, a.sid, NoHeaders, reqs, h.depth)

\* get_session_id once its headers h are built: the GET and its answer g
session_request(s, g, h) ==
    IF ~h.ok THEN Fail("AuthenticationError", h.reqs, h.depth)
    ELSE session_result(h,
                        Append(h.reqs, Request("GET", Url(s.urls, "session_id"), h.hdr, NoQuery)),
                        session_response(g))

\* get_session_id with d session fetches already on the stack; g is what the
\* session endpoint answers
get_session_id(s, g, n, d) ==
    IF d >= RecursionLimit THEN Fail("AuthenticationError", <<>>, d)
    ELSE session_request(s, g, default_headers(s, session_auth_key(s), g, n, d + 1))

\* __generate_encrypted_key once the raw key is at hand: e is its encryption
encrypted_key(raw, e) ==
    IF ~raw.ok \/ ~e.ok THEN Fail("AuthenticationError", raw.reqs, raw.depth)
    ELSE Res(TRUE, "", e.key, raw.sid, NoHeaders, raw.reqs, raw.depth)

\* __generate_encrypted_key once both keys are read: raw is the API key, or
\* what get_session_id returned or raised
encrypt_raw_key(pub_key, raw, n) ==
    encrypted_key(raw, IF raw.ok THEN encrypt(pub_key, raw.sid, n)
                       ELSE [ok |-> FALSE, key |-> None])

\* __generate_encrypted_key; n is the padding the encryption draws
generate_encrypted_key(s, session, g, n, d) ==
    IF \/ ~Subscript(s.auth_keys, "public_key").ok
       \/ ~Subscript(s.auth_keys, "api_key").ok
    THEN Fail("AuthenticationError", <<>>, d)
    ELSE encrypt_raw_key(Subscript(s.auth_keys, "public_key").val,
                         IF session THEN get_session_id(s, g, n, d)
                         ELSE Res(TRUE, "", None, Subscript(s.auth_keys, "api_key").val,
                                  NoHeaders, <<>>, d),
                         n)

\* default_headers once the session key k is encrypted, or failed to be
session_headers(s, k) ==
    IF ~k.ok THEN k
    ELSE [k EXCEPT !.hdr = Headers(k.key, origin_address(s))]

\* mutant: without a key the headers reuse the stored encrypted API key
\* instead of fetching a session
default_headers_m(s, auth_key, g, n, d) ==
    LET k == IF Falsy(auth_key) THEN s.encrypted_api_key ELSE auth_key
    IN  Res(TRUE, "", k, Absent, Headers(k, origin_address(s)), <<>>, d)

default_headers(s, auth_key, g, n, d) ==
    IF Falsy(auth_key)
    THEN session_headers(s, generate_encrypted_key(s, TRUE, g, n, d))
    ELSE Res(TRUE, "", auth_key, Absent, Headers(auth_key, origin_address(s)), <<>>, d)

(***************************************************************************)
(* Construction.                                                           *)
(***************************************************************************)
\* the authenticated property once the keys are loaded into s1: e is the
\* encryption of the API key
authenticated_key(s1, e) ==
    IF ~e.ok THEN [self |-> s1, ok |-> FALSE, err |-> e.err, val |-> FALSE]
    ELSE [self |-> [s1 EXCEPT !.encrypted_api_key = e.key],
          ok |-> TRUE, err |-> "", val |-> ~Falsy(e.key)]

\* the authenticated property once the file is found: k is what __load_keys
\* returned or raised
authenticated_keys(s, k, n) ==
    IF ~k.ok THEN [self |-> s, ok |-> FALSE, err |-> k.err, val |-> FALSE]
    ELSE IF ~Truthy(k.val)
         THEN [self |-> [s EXCEPT !.auth_keys = k.val], ok |-> TRUE, err |-> "",
               val |-> FALSE]
         ELSE authenticated_key(
                  [s EXCEPT !.auth_keys = k.val],
                  generate_encrypted_key([s EXCEPT !.auth_keys = k.val], FALSE, NoResp, n, 0))

\* the authenticated property read with key store f: the object afterwards,
\* and the bool returned or the exception raised
authenticated(s, f, n) ==
    IF f.t = "missing"
    THEN [self |-> s, ok |-> FALSE, err |-> "FileNotFoundError", val |-> FALSE]
    ELSE authenticated_keys(s, load_keys(f), n)

Environments == {"production", "testing", "sandbox"}

\* the URL set the constructor picks
service_urls(environment) ==
    IF environment = "production" THEN "production" ELSE "sandbox"

\* __init__ once the authenticated property a is read
init_result(a) ==
    IF ~a.ok THEN [ok |-> FALSE, err |-> a.err, self |-> NoClient]
    ELSE IF ~a.val THEN [ok |-> FALSE, err |-> "AuthenticationError", self |-> NoClient]
    ELSE [ok |-> TRUE, err |-> "", self |-> a.self]

\* Mpesa(auth_path, environment) with key store f: the client, or the exception
init(f, environment, n) ==
    init_result(authenticated(Client(NoStore("unset"), None, "*", service_urls(environment)),
                              f, n))

(***************************************************************************)
(* Transaction dispatch.                                                   *)
(***************************************************************************)
Kinds ==
    {"customer_to_bussiness", "bussiness_to_customer", "bussiness_to_bussiness",
     "payment_reversal", "query_transaction_status"}

required_fields(kind) ==
    IF kind = "customer_to_bussiness" THEN
        {"input_Amount", "input_Country", "input_Currency", "input_CustomerMSISDN",
         "input_ServiceProviderCode", "input_ThirdPartyConversationID",
         "input_TransactionReference", "input_PurchasedItemsDesc"}
    ELSE IF kind = "bussiness_to_customer" THEN
        {"input_Amount", "input_Country", "input_Currency", "input_CustomerMSISDN",
         "input_ServiceProviderCode", "input_ThirdPartyConversationID",
         "input_TransactionReference", "input_PaymentItemsDesc"}
    ELSE IF kind = "bussiness_to_bussiness" THEN
        {"input_Amount", "input_Country", "input_Currency", "input_PrimaryPartyCode",
         "input_ReceiverPartyCode", "input_ThirdPartyConversationID",
         "input_TransactionReference", "input_PurchasedItemsDesc"}
    ELSE IF kind = "payment_reversal" THEN
        {"input_Country", "input_ReversalAmount", "input_ServiceProviderCode",
         "input_ThirdPartyConversationID", "input_TransactionID"}
    ELSE
        {"input_Country", "input_QueryReference", "input_ServiceProviderCode",
         "input_ThirdPartyConversationID"}

\* the attribute of self.urls each operation posts to
endpoint(kind) ==
    IF kind = "customer_to_bussiness" THEN "single_stage_c2b"
    ELSE IF kind = "bussiness_to_customer" THEN "single_stage_b2c"
    ELSE IF kind = "bussiness_to_bussiness" THEN "single_stage_b2b"
    ELSE IF kind = "payment_reversal" THEN "payment_reversal"
    ELSE "transaction_status"

\* mutant: the set difference taken the wrong way round
verify_query_m(transaction_query, required) == DOMAIN transaction_query \ required

\* verify_query: the missing keys it raises KeyError with; {} when it returns True
verify_query(transaction_query, required) == required \ DOMAIN transaction_query

\* the except clause of a dispatch operation: what the caller sees raised
post_failure(exc) ==
    IF RequestsClasses(exc) \cap {"requests.ConnectTimeout", "requests.ConnectionError"} # {}
    THEN "ConnectionError"
    ELSE exc

\* mutant: the body keeps only the fields some operation requires
post_body_m(transaction_query) ==
    [k \in DOMAIN transaction_query \ ExtraFields |-> transaction_query[k]]

\* the JSON body handed to requests.post
post_body(transaction_query) == transaction_query

Out(err, missing, ret, reqs, depth) ==
    [err |-> err, missing |-> missing, ret |-> ret, reqs |-> reqs, depth |-> depth]

\* a dispatch operation once its POST is sent: p is the answer
post_result(p, reqs, depth) ==
    IF p.t = "exc" THEN Out(post_failure(p.exc), {}, NoJson, reqs, depth)
    ELSE IF p.t = "notjson" THEN Out("JSONDecodeError", {}, NoJson, reqs, depth)
    ELSE Out("", {}, Json(p), reqs, depth)

\* a dispatch operation once the query is verified and the headers h built
send_post(s, kind, transaction_query, p, h) ==
    IF ~h.ok THEN Out(h.err, {}, NoJson, h.reqs, h.depth)
    ELSE post_result(p,
                     Append(h.reqs, Request("POST", Url(s.urls, endpoint(kind)), h.hdr,
                                            post_body(transaction_query))),
                     h.depth)

\* one dispatch operation; g and p are what the service answers to the GET and
\* to the POST
dispatch(s, kind, transaction_query, g, p, n) ==
    IF verify_query(transaction_query, required_fields(kind)) # {}
    THEN Out("KeyError", verify_query(transaction_query, required_fields(kind)),
             NoJson, <<>>, 0)
    ELSE send_post(s, kind, transaction_query, p, default_headers(s, EmptyStr, g, n, 0))

(***************************************************************************)
(* The state machine.                                                      *)
(*   keyfile     the key store in the current directory                    *)
(*   phase       "new" before Mpesa(...) is called, "live" once it has     *)
(*               returned a client, "failed" when it raised                *)
(*   self        the client object                                         *)
(*   call        the last operation: inputs, answers consumed, outcome     *)
(*   trace       the methods of all HTTP requests issued so far, in order  *)
(*   nops        operations since construction                             *)
(*   lastOrigin  history: the last str assigned to origin_address, or "*"  *)
(*   pure        history: every operation so far was a dispatch call that  *)
(*               reached its POST                                          *)
(*   nposted     history: dispatch calls that reached their POST           *)
(***************************************************************************)
Call(op, query, get, post, err, missing, ret, sid, hdr, val, arg, reqs, depth) ==
    [op |-> op, query |-> query, get |-> get, post |-> post, err |-> err,
     missing |-> missing, ret |-> ret, sid |-> sid, hdr |-> hdr, val |-> val,
     arg |-> arg, reqs |-> reqs, depth |-> depth]

Plain(op, err, val, arg) ==
    Call(op, NoQuery, NoResp, NoResp, err, {}, NoJson, Absent, NoHeaders, val, arg, <<>>, 0)

Methods(reqs) == [i \in 1..Len(reqs) |-> reqs[i].method]

Issued(method, reqs) == \E i \in 1..Len(reqs) : reqs[i].method = method

\* the answer a call consumed: none when it never sent that request
Answered(method, reqs, r) == IF Issued(method, reqs) THEN r ELSE NoResp

\* the queries tried on an operation: its required fields less at most
\* MaxMissing of them, with or without extra fields, and the empty query
Queries(kind) ==
    {Query((required_fields(kind) \ drop) \cup extra) :
        drop \in {d \in SUBSET required_fields(kind) : Cardinality(d) <= MaxMissing},
        extra \in SUBSET ExtraFields}
    \cup {NoQuery}

OriginValues == {"10.0.0.1", "*", NonStr}

AuthKeyArgs == {EmptyStr, None, CallerKey}

Idle == Plain("", "", "", "")

\* the client exists, the previous call has returned to its caller, and the
\* exploration has operations left
Ready == phase = "live" /\ call = Idle /\ nops < MaxOps

Init ==
    /\ keyfile \in KeyStores
    /\ phase = "new"
    /\ self = NoClient
    /\ call = Idle
    /\ trace = <<>>
    /\ nops = 0
    /\ lastOrigin = "*"
    /\ pure = TRUE
    /\ nposted = 0

Constructed(environment, r) ==
    /\ phase' = IF r.ok THEN "live" ELSE "failed"
    /\ self' = r.self
    /\ call' = Plain("__init__", r.err, "", environment)

Construct ==
    /\ phase = "new"
    /\ \E environment \in Environments, n \in Paddings :
        Constructed(environment, init(keyfile, environment, n))
    /\ UNCHANGED <<keyfile, trace, nops, lastOrigin, pure, nposted>>

\* The answers and the padding a dispatch call can consume: an answer is
\* drawn only for a request the call sends, a padding only when it encrypts.
DispatchGets(s, kind, q) ==
    IF Issued("GET", dispatch(s, kind, q, NoResp, NoResp, 1).reqs)
    THEN GetOutcomes ELSE {NoResp}

DispatchPosts(s, kind, q, g) ==
    IF Issued("POST", dispatch(s, kind, q, g, NoResp, 1).reqs)
    THEN PostOutcomes ELSE {NoResp}

DispatchPaddings(s, kind, q, g) ==
    IF Issued("POST", dispatch(s, kind, q, g, NoResp, 1).reqs)
    THEN Paddings ELSE {1}

Dispatched(kind, q, g, p, o) ==
    /\ call' = Call(kind, q, Answered("GET", o.reqs, g), Answered("POST", o.reqs, p),
                    o.err, o.missing, o.ret, Absent, NoHeaders, "", "", o.reqs, o.depth)
    /\ trace' = trace \o Methods(o.reqs)
    /\ pure' = (pure /\ Issued("POST", o.reqs))
    /\ nposted' = IF Issued("POST", o.reqs) THEN nposted + 1 ELSE nposted

Dispatch(kind) ==
    /\ Ready
    /\ \E q \in Queries(kind) :
       \E g \in DispatchGets(self, kind, q) :
       \E p \in DispatchPosts(self, kind, q, g), n \in DispatchPaddings(self, kind, q, g) :
        Dispatched(kind, q, g, p, dispatch(self, kind, q, g, p, n))
    /\ nops' = nops + 1
    /\ UNCHANGED <<keyfile, phase, self, lastOrigin>>

customer_to_bussiness == Dispatch("customer_to_bussiness")

bussiness_to_customer == Dispatch("bussiness_to_customer")

bussiness_to_bussiness == Dispatch("bussiness_to_bussiness")

payment_reversal == Dispatch("payment_reversal")

query_transaction_status == Dispatch("query_transaction_status")

SessionFetched(g, o) ==
    /\ call' = Call("get_session_id", NoQuery, Answered("GET", o.reqs, g), NoResp,
                    o.err, {}, NoJson, o.sid, NoHeaders, "", "", o.reqs, o.depth)
    /\ trace' = trace \o Methods(o.reqs)

GetSessionId ==
    /\ Ready
    /\ \E g \in GetOutcomes, n \in Paddings :
        SessionFetched(g, get_session_id(self, g, n, 0))
    /\ nops' = nops + 1
    /\ pure' = FALSE
    /\ UNCHANGED <<keyfile, phase, self, lastOrigin, nposted>>

HeadersBuilt(auth_key, g, o) ==
    /\ call' = Call("default_headers", NoQuery, Answered("GET", o.reqs, g), NoResp,
                    o.err, {}, NoJson, o.sid, o.hdr, "", auth_key.plain, o.reqs, o.depth)
    /\ trace' = trace \o Methods(o.reqs)

DefaultHeaders ==
    /\ Ready
    /\ \E auth_key \in AuthKeyArgs, g \in GetOutcomes, n \in Paddings :
        HeadersBuilt(auth_key, g, default_headers(self, auth_key, g, n, 0))
    /\ nops' = nops + 1
    /\ pure' = FALSE
    /\ UNCHANGED <<keyfile, phase, self, lastOrigin, nposted>>

SetOrigin ==
    /\ Ready
    /\ \E ip_address \in OriginValues :
        LET r == origin_address_set(self, ip_address)
        IN  /\ self' = r.self
            /\ call' = Plain("origin_address=", r.err, "", ip_address)
            /\ lastOrigin' = IF IsStr(ip_address) THEN ip_address ELSE lastOrigin
    /\ nops' = nops + 1
    /\ UNCHANGED <<keyfile, phase, trace, pure, nposted>>

GetOrigin ==
    /\ Ready
    /\ call' = Plain("origin_address", "", origin_address(self), "")
    /\ nops' = nops + 1
    /\ UNCHANGED <<keyfile, phase, self, trace, lastOrigin, pure, nposted>>

AuthenticatedRead(a) ==
    /\ self' = a.self
    /\ call' = Plain("authenticated", a.err, IF a.val THEN "True" ELSE "False", "")

ReadAuthenticated ==
    /\ Ready
    /\ \E n \in Paddings : AuthenticatedRead(authenticated(self, keyfile, n))
    /\ nops' = nops + 1
    /\ UNCHANGED <<keyfile, phase, trace, lastOrigin, pure, nposted>>

\* the environment rewrites, removes or corrupts the key store
WriteKeyFile ==
    /\ Ready
    /\ \E f \in KeyStores \ {keyfile} :
        /\ keyfile' = f
        /\ call' = Idle
    /\ nops' = nops + 1
    /\ UNCHANGED <<phase, self, trace, lastOrigin, pure, nposted>>

\* the caller has taken the outcome of the last call
Return ==
    /\ call # Idle
    /\ call' = Idle
    /\ UNCHANGED <<keyfile, phase, self, trace, nops, lastOrigin, pure, nposted>>

Next ==
    \/ Construct
    \/ customer_to_bussiness
    \/ bussiness_to_customer
    \/ bussiness_to_bussiness
    \/ payment_reversal
    \/ query_transaction_status
    \/ GetSessionId
    \/ DefaultHeaders
    \/ SetOrigin
    \/ GetOrigin
    \/ ReadAuthenticated
    \/ WriteKeyFile
    \/ Return

Spec == Init /\ [][Next]_vars


(***************************************************************************)
(* The specification's side of the claims: its table of required fields,  *)
(* its endpoints, and what it counts as a failed session fetch.           *)
(***************************************************************************)
RequiredBySpec(kind) ==
    IF kind = "customer_to_bussiness" THEN
        {"input_Amount", "input_Country", "input_Currency", "input_CustomerMSISDN",
         "input_ServiceProviderCode", "input_ThirdPartyConversationID",
         "input_TransactionReference", "input_PurchasedItemsDesc"}
    ELSE IF kind = "bussiness_to_customer" THEN
        {"input_Amount", "input_Country", "input_Currency", "input_CustomerMSISDN",
         "input_ServiceProviderCode", "input_ThirdPartyConversationID",
         "input_TransactionReference", "input_PaymentItemsDesc"}
    ELSE IF kind = "bussiness_to_bussiness" THEN
        {"input_Amount", "input_Country", "input_Currency", "input_PrimaryPartyCode",
         "input_ReceiverPartyCode", "input_ThirdPartyConversationID",
         "input_TransactionReference", "input_PurchasedItemsDesc"}
    ELSE IF kind = "payment_reversal" THEN
        {"input_Country", "input_ReversalAmount", "input_ServiceProviderCode",
         "input_ThirdPartyConversationID", "input_TransactionID"}
    ELSE IF kind = "query_transaction_status" THEN
        {"input_Country", "input_QueryReference", "input_ServiceProviderCode",
         "input_ThirdPartyConversationID"}
    ELSE {}

EndpointBySpec(kind) ==
    IF kind = "customer_to_bussiness" THEN "single_stage_c2b"
    ELSE IF kind = "bussiness_to_customer" THEN "single_stage_b2c"
    ELSE IF kind = "bussiness_to_bussiness" THEN "single_stage_b2b"
    ELSE IF kind = "payment_reversal" THEN "payment_reversal"
    ELSE IF kind = "query_transaction_status" THEN "transaction_status"
    ELSE "none"

IsDispatch == call.op \in Kinds

MissingBySpec == RequiredBySpec(call.op) \ DOMAIN call.query

CountOf(method, reqs) == Cardinality({i \in 1..Len(reqs) : reqs[i].method = method})

\* the session fetch failed: INS-989, a network error, a body that is not
\* JSON, or one of the three fields missing
SessionFetchFailed(g) ==
    \/ g.t = "exc"
    \/ g.t = "notjson"
    \/ g.t = "json" /\ \/ g.output_ResponseCode = "INS-989"
                       \/ g.output_SessionID = Absent
                       \/ g.output_ResponseCode = Absent
                       \/ g.output_ResponseDesc = Absent

SessionFetchSucceeded(g) == g.t = "json" /\ ~SessionFetchFailed(g)

\* C1: a dispatch call whose query lacks a required field fails with the
\* missing-fields error (KeyError) reporting exactly the required fields
\* the query lacks, and issues no HTTP request, GET or POST.
C1_MissingFields ==
    (IsDispatch /\ MissingBySpec # {}) =>
        /\ call.err = "KeyError"
        /\ call.missing = MissingBySpec
        /\ call.reqs = <<>>

C1_Witness ==
    /\ call.op = "payment_reversal"
    /\ "input_Note" \in DOMAIN call.query
    /\ call.err = "KeyError"
    /\ call.missing = {"input_TransactionID"}
    /\ trace # <<>>

\* C2: a dispatch call whose query has every required field (extra fields
\* or not), whose session fetch succeeded and whose POST was answered with
\* a JSON body, issued exactly one POST, to its kind's endpoint in the
\* client's URL set, with the whole query as body, and returned the parsed
\* body as it came, whatever its response code.
C2_ValidDispatch ==
    (/\ IsDispatch
     /\ MissingBySpec = {}
     /\ SessionFetchSucceeded(call.get)
     /\ call.post.t = "json") =>
        /\ CountOf("POST", call.reqs) = 1
        /\ \A i \in 1..Len(call.reqs) :
               call.reqs[i].method = "POST" =>
                   /\ call.reqs[i].url = Url(self.urls, EndpointBySpec(call.op))
                   /\ call.reqs[i].json = call.query
        /\ call.err = ""
        /\ call.ret = Json(call.post)

C2_Witness ==
    /\ call.op = "bussiness_to_customer"
    /\ "input_Note" \in DOMAIN call.query
    /\ self.urls = "production"
    /\ call.post.output_ResponseCode = "INS-2006"
    /\ call.err = ""
    /\ call.ret.output_ResponseCode = "INS-2006"

\* C3: when the session fetch fails, get_session_id raises
\* AuthenticationError, and a dispatch call in which it happens raises
\* AuthenticationError having sent the one GET and nothing else: no POST.
C3_SessionFailure ==
    SessionFetchFailed(call.get) =>
        /\ call.err = "AuthenticationError"
        /\ Methods(call.reqs) = <<"GET">>

C3_Witness ==
    /\ call.op = "customer_to_bussiness"
    /\ call.get.output_ResponseCode = "INS-989"
    /\ call.get.output_SessionID = "S1"
    /\ call.err = "AuthenticationError"

\* C4: a network-level failure of the transaction POST makes the dispatch
\* call raise ConnectionError, the POST having been sent once.
C4_PostFailure ==
    (IsDispatch /\ call.post.t = "exc") =>
        /\ call.err = "ConnectionError"
        /\ CountOf("POST", call.reqs) = 1

\* C5 as stated: every failed construction raises AuthenticationError.
C5_Original ==
    (call.op = "__init__" /\ phase = "failed") => call.err = "AuthenticationError"

\* a key store the initial encryption succeeds on
Encryptable(f) ==
    /\ f.t = "dict"
    /\ f.public_key \in GoodPublicKeys
    /\ f.api_key \in ApiKeys

\* C5 amended: construction fails at once, sending nothing, whenever the
\* credentials cannot be loaded or encrypted: with FileNotFoundError when
\* the locator is not in the current directory, with LoadingKeyError when
\* the content cannot be read or parsed, with AuthenticationError when the
\* parsed content is empty, lacks public_key or api_key, or the encryption
\* of the API key fails.
C5_ConstructionFails ==
    (call.op = "__init__" /\ ~Encryptable(keyfile)) =>
        /\ phase = "failed"
        /\ self = NoClient
        /\ trace = <<>>
        /\ call.err = IF keyfile.t = "missing" THEN "FileNotFoundError"
                      ELSE IF keyfile.t \in {"unreadable", "garbage"} THEN "LoadingKeyError"
                      ELSE "AuthenticationError"

C5_Witness ==
    /\ call.op = "__init__"
    /\ keyfile.t = "garbage"
    /\ phase = "failed"
    /\ call.err = "LoadingKeyError"

\* C6: a client that construction returns has both public_key and api_key
\* loaded and a non-empty encrypted API key; for a key store that parses
\* but lacks public_key or api_key (the empty object too) construction
\* raises AuthenticationError and returns no client.
C6_NoPartialClient ==
    /\ (call.op = "__init__" /\ phase = "live") =>
           /\ self.auth_keys.t = "dict"
           /\ self.auth_keys.public_key # Absent
           /\ self.auth_keys.api_key # Absent
           /\ ~Falsy(self.encrypted_api_key)
           /\ self.encrypted_api_key.plain = self.auth_keys.api_key
           /\ self.encrypted_api_key.pub = self.auth_keys.public_key
    /\ (/\ call.op = "__init__"
        /\ keyfile.t \in {"dict", "null", "list"}
        /\ (keyfile.public_key = Absent \/ keyfile.api_key = Absent)) =>
           /\ phase = "failed"
           /\ self = NoClient
           /\ call.err = "AuthenticationError"

C6_Witness ==
    /\ call.op = "__init__"
    /\ keyfile = Store("dict", "PK1", Absent, Absent)
    /\ phase = "failed"
    /\ call.err = "AuthenticationError"

\* C7: the Origin header of every request, GET or POST, and of every set
\* of headers built, is the last str assigned to origin_address, "*" if
\* none was; assigning a value that is not a str raises TypeError and
\* leaves the effective origin address as it was.
C7_Origin ==
    /\ \A i \in 1..Len(call.reqs) : call.reqs[i].headers.Origin = lastOrigin
    /\ (call.op = "default_headers" /\ call.err = "") => call.hdr.Origin = lastOrigin
    /\ (call.op = "origin_address") => call.val = lastOrigin
    /\ (call.op = "origin_address=" /\ call.arg = NonStr) => call.err = "TypeError"
    /\ (call.op = "origin_address=" /\ call.arg # NonStr) => call.err = ""
    /\ phase = "live" => self.origin_ip = lastOrigin

C7_Witness ==
    /\ IsDispatch
    /\ Len(call.reqs) = 2
    /\ call.reqs[1].headers.Origin = "10.0.0.1"
    /\ call.reqs[2].headers.Origin = "10.0.0.1"
    /\ lastOrigin = "10.0.0.1"
    /\ nops >= 2

Alternates(t) == \A i \in 1..Len(t) : t[i] = IF i % 2 = 1 THEN "GET" ELSE "POST"

\* C8: a dispatch call that reaches its POST has sent exactly one
\* session-id GET before it, and the POST's Authorization is "Bearer "
\* and the encryption of the session id that GET returned; after n
\* dispatch calls that reached their POST, and nothing else, n GETs and n
\* POSTs have been sent, alternating GET then POST.
C8_FreshSession ==
    /\ (IsDispatch /\ Issued("POST", call.reqs)) =>
           /\ Methods(call.reqs) = <<"GET", "POST">>
           /\ call.reqs[1].url = Url(self.urls, "session_id")
           /\ SessionFetchSucceeded(call.get)
           /\ call.reqs[2].headers.Authorization.scheme = "Bearer"
           /\ call.reqs[2].headers.Authorization.key.plain = call.get.output_SessionID
           /\ call.reqs[2].headers.Authorization.key.pub = self.auth_keys.public_key
    /\ pure => /\ Len(trace) = 2 * nposted
               /\ Alternates(trace)

C8_Witness ==
    /\ pure
    /\ nposted = 2
    /\ trace = <<"GET", "POST", "GET", "POST">>
    /\ call.op = "query_transaction_status"
    /\ call.get.output_SessionID = "S2"
    /\ call.reqs[2].headers.Authorization.key.plain = "S2"

\* C9: once a client is constructed its credentials and its URL set never
\* change, whatever is called on it and whatever happens to the key store.
C9_Immutable ==
    [][(phase = "live" /\ phase' = "live") =>
          /\ self'.auth_keys = self.auth_keys
          /\ self'.urls = self.urls]_vars

\* C10: get_session_id sends at most one GET, authenticated with "Bearer "
\* and the stored encrypted API key, never an encrypted session id; the
\* stored key is never empty, default_headers given a key fetches nothing,
\* and no call nests one session fetch inside another.
C10_NoNestedFetch ==
    /\ phase = "live" => /\ ~Falsy(self.encrypted_api_key)
                         /\ self.encrypted_api_key.plain \in ApiKeys
    /\ call.depth <= 1
    /\ CountOf("GET", call.reqs) <= 1
    /\ \A i \in 1..Len(call.reqs) :
           call.reqs[i].method = "GET" =>
               /\ call.reqs[i].url = Url(self.urls, "session_id")
               /\ call.reqs[i].headers.Authorization = Bearer(self.encrypted_api_key)
    /\ call.op = "get_session_id" => Len(call.reqs) <= 1
    /\ (call.op = "default_headers" /\ call.arg = CallerKey.plain) =>
           /\ call.reqs = <<>>
           /\ call.hdr.Authorization = Bearer(CallerKey)

C10_Witness ==
    /\ call.op = "get_session_id"
    /\ Methods(call.reqs) = <<"GET">>
    /\ call.err = ""
    /\ call.sid = "S2"
    /\ call.depth = 1

====
